---- MODULE Spec2Model ----
(***************************************************************************)
(* Model of eta-parse's fixed-width flat-file engine: the layout builder   *)
(* (src/flat/fixed/builder.rs and the inline builder of                    *)
(* src/flat/fixed/mod.rs, two resolution passes over the same queue), the  *)
(* string primitives of src/utilities/string.rs, and the layout's format   *)
(* and parse, whose source is not in the repository's files at hand and    *)
(* which follow sections 3, 4.3 and 4.4 of the specification.              *)
(*                                                                         *)
(* Five specifications share the variables: Spec (the builder's queue and *)
(* the two resolution passes), AlignSpec (the builder's alignment and      *)
(* padding), StrSpec (the string primitives), CodecSpec (format and parse) *)
(* and ReaderSpec (StringReader of src/flat/fixed/read.rs).                *)
(*                                                                         *)
(* Option<T> values are modelled as sequences: None is <<>>, Some(v) is    *)
(* <<v>>.  Strings are sequences of Unicode scalar values; every scalar    *)
(* carries its UTF-8 length, because the source indexes &str by byte.      *)
(* All numbers of the model stay far below 2^32, so u32/usize arithmetic   *)
(* is exact.                                                               *)
(***************************************************************************)
EXTENDS Integers, Sequences, FiniteSets, TLC

VARIABLES
    fields,        \* ParserBuilder.fields: the queue of declared fields
    align,         \* ParserBuilder.align: default alignment
    padding,       \* ParserBuilder.padding: default padding character
    fb,            \* the FieldBuilder in construction (None when the ParserBuilder is free)
    parser,        \* outcome of the last build call (NotBuilt, a panic, or a Parser)
    declarations,  \* the queue as it was handed to the last build call
    inserted,      \* Some(index) when the last declaration was placed by insert(index)
    call,          \* Some(op, arg) when the last call set an alignment or a padding
    built_before,  \* outcome of the build call before the last one, on the same queue
    str_width,     \* the width argument of the string primitives
    str_align,     \* their align argument
    str_padding,   \* their padding argument
    last_op,       \* the string primitive called last ("" before any call)
    chars_in,      \* the &str it was called on
    chars_out,     \* what it returned (a string, or a panic); the next call's input
    prev_op,       \* the string primitive called before the last one
    prev_in,       \* the &str that one was called on
    record,        \* the Record handed to format: field name -> value
    line,          \* Some(what format returned), None before the call
    parsed,        \* Some(what parse returned for that line), None before the call
    lines,         \* Reader.lines: the items the line source has still to give
    consumed,      \* the items next() has taken from it so far
    item,          \* what the last call of next() returned
    ended,         \* next() has returned None at least once
    yielded        \* the records next() has returned, with the line they came from

bvars == <<fields, align, padding, fb, parser, declarations, inserted, call, built_before>>
svars == <<str_width, str_align, str_padding, last_op, chars_in, chars_out, prev_op, prev_in>>
cvars == <<record, line, parsed>>
rvars == <<lines, consumed, item, ended, yielded>>
vars == <<bvars, svars, cvars, rvars>>

----------------------------------------------------------------------------
(* Bounds of the model *)

\* StrSpec: scalars of an input string, and the width argument
MaxLen == 3
MaxStrWidth == 3
\* CodecSpec: fields of a layout, explicit positions, widths, scalars of a value
MaxCodecFields == 2
MaxCodecPos == 1
MaxCodecWidth == 2
MaxValueLen == 2
\* ReaderSpec: lines of a source, scalars of a line, end of the layout
MaxLines == 2
MaxLineLen == 3
MaxEnd == 3
\* Spec: declarations in the queue, explicit positions, widths
MaxFields == 2
MaxPos == 2
MaxWidth == 2

Names == {"a"}
Positions == 0..MaxPos
Widths == 0..MaxWidth

----------------------------------------------------------------------------
(* Option<T> *)

None == <<>>
Some(v) == <<v>>
is_none(o) == o = <<>>
is_some(o) == o # <<>>
unwrap(o) == o[1]

----------------------------------------------------------------------------
(* Align *)
Left == "Left"
Right == "Right"

\* the arguments of align and default_align (T: TryInto<Align>): an Align
\* value, or a text token
AlignValue(a) == [kind |-> "Align", v |-> <<a>>]
Token(t) == [kind |-> "str", v |-> t]
\* text tokens are sequences of scalars: the tokens of the tests of
\* string.rs ("LEFT", "Right", "Banana") and builder.rs ("RIGHT", "banana"),
\* and one with white space (a tab, a form feed) around it
AlignTokens ==
    { <<"L", "E", "F", "T">>, <<"R", "i", "g", "h", "t">>, <<"R", "I", "G", "H", "T">>,
      <<"b", "a", "n", "a", "n", "a">>, <<"B", "a", "n", "a", "n", "a">>,
      <<"\t", "l", "e", "f", "t", "\f">> }
AlignArgs == {AlignValue(Left), AlignValue(Right)} \cup {Token(t) : t \in AlignTokens}

\* char::to_lowercase on the scalars of the model (ASCII and Latin-1, a
\* scalar beyond ASCII written "U+XXXX"): an upper-case letter maps to its
\* lower-case letter, every other scalar of the model to itself
UpperCase ==
    <<"A", "B", "C", "D", "E", "F", "G", "H",
      "I", "J", "K", "L", "M", "N", "O", "P",
      "Q", "R", "S", "T", "U", "V", "W", "X",
      "Y", "Z", "U+00C0", "U+00C1", "U+00C2", "U+00C3", "U+00C4", "U+00C5",
      "U+00C6", "U+00C7", "U+00C8", "U+00C9", "U+00CA", "U+00CB", "U+00CC", "U+00CD",
      "U+00CE", "U+00CF", "U+00D0", "U+00D1", "U+00D2", "U+00D3", "U+00D4", "U+00D5",
      "U+00D6", "U+00D8", "U+00D9", "U+00DA", "U+00DB", "U+00DC", "U+00DD", "U+00DE">>
LowerCase ==
    <<"a", "b", "c", "d", "e", "f", "g", "h",
      "i", "j", "k", "l", "m", "n", "o", "p",
      "q", "r", "s", "t", "u", "v", "w", "x",
      "y", "z", "U+00E0", "U+00E1", "U+00E2", "U+00E3", "U+00E4", "U+00E5",
      "U+00E6", "U+00E7", "U+00E8", "U+00E9", "U+00EA", "U+00EB", "U+00EC", "U+00ED",
      "U+00EE", "U+00EF", "U+00F0", "U+00F1", "U+00F2", "U+00F3", "U+00F4", "U+00F5",
      "U+00F6", "U+00F8", "U+00F9", "U+00FA", "U+00FB", "U+00FC", "U+00FD", "U+00FE">>
LowerOf == [u \in {UpperCase[i] : i \in 1..Len(UpperCase)} |->
               LowerCase[CHOOSE i \in 1..Len(UpperCase) : UpperCase[i] = u]]
to_lowercase_char(c) == IF c \in DOMAIN LowerOf THEN LowerOf[c] ELSE c

\* String::to_lowercase: scalar by scalar
to_lowercase(s) == [i \in 1..Len(s) |-> to_lowercase_char(s[i])]

\* char::is_whitespace: the scalars with the Unicode property White_Space
\* (U+0009..U+000D, U+0020, U+0085, U+00A0, U+1680, U+2000..U+200A, U+2028,
\* U+2029, U+202F, U+205F, U+3000)
WhiteSpace ==
    { "\t", "\n", "U+000B", "\f", "\r", " ", "U+0085", "U+00A0", "U+1680",
      "U+2000", "U+2001", "U+2002", "U+2003", "U+2004", "U+2005", "U+2006",
      "U+2007", "U+2008", "U+2009", "U+200A", "U+2028", "U+2029", "U+202F",
      "U+205F", "U+3000" }

\* str::trim: the slice without its leading and trailing white space
trim(s) ==
    LET inner == {i \in 1..Len(s) : s[i] \notin WhiteSpace}
    IN  IF inner = {} THEN <<>>
        ELSE SubSeq(s, CHOOSE i \in inner : \A j \in inner : i <= j,
                       CHOOSE i \in inner : \A j \in inner : j <= i)

\* s.to_lowercase().trim()
to_lowercase_trim(t) == trim(to_lowercase(t))

\* Align::try_from(&str): Ok(align) is Some(align), Err(_) is None
Align_try_from(t) ==
    IF to_lowercase_trim(t) = <<"l", "e", "f", "t">> THEN Some(Left)
    ELSE IF to_lowercase_trim(t) = <<"r", "i", "g", "h", "t">> THEN Some(Right)
    ELSE None

\* align.try_into(): an Align converts to itself, a token by try_from
try_into(arg) == IF arg.kind = "Align" THEN Some(arg.v[1]) ELSE Align_try_from(arg.v)

\* the padding characters given to padding and default_padding
PadChars == {" ", "-"}

----------------------------------------------------------------------------
(* Field and FieldBuilder *)

\* Field::new: a field as FieldBuilder::build makes it, without an index
Field_new(name, position, width, al, pad) ==
    [index |-> None, name |-> name, position |-> position, width |-> width,
     align |-> al, padding |-> pad]

FieldBuilder_new_left(name, al, pad) ==
    [name |-> name, position |-> None, width |-> None, align |-> Left, padding |-> " "]

\* FieldBuilder::new
FieldBuilder_new(name, al, pad) ==
    [name |-> name, position |-> None, width |-> None, align |-> al, padding |-> pad]

\* FieldBuilder::position
position_fb(b, p) == [b EXCEPT !.position = Some(p)]

\* FieldBuilder::width
width_fb(b, w) == [b EXCEPT !.width = Some(w)]

range_fb_to_end(b, start, end) == [b EXCEPT !.position = Some(start), !.width = Some(end)]

\* FieldBuilder::range, for a range start..end
range_fb(b, start, end) == [b EXCEPT !.position = Some(start), !.width = Some(end - start)]

align_fb_or_left(b, arg) ==
    [b EXCEPT !.align = IF is_some(try_into(arg)) THEN unwrap(try_into(arg)) ELSE Left]

\* FieldBuilder::align: Ok(align) sets it, Err(_) prints and leaves it
align_fb(b, arg) ==
    IF is_some(try_into(arg)) THEN [b EXCEPT !.align = unwrap(try_into(arg))] ELSE b

\* FieldBuilder::padding
padding_fb(b, c) == [b EXCEPT !.padding = c]

\* ParserBuilder::default_align: Ok(align) sets it, Err(_) prints and leaves it
default_align(al, arg) == IF is_some(try_into(arg)) THEN unwrap(try_into(arg)) ELSE al

\* FieldBuilder::build
build_field(b) == Field_new(b.name, b.position, b.width, b.align, b.padding)

----------------------------------------------------------------------------
(* ParserBuilder: the queue operations *)

\* ParserBuilder::append: VecDeque::push_back
append(q, field) == Append(q, field)

insert_last(q, index, field) == Append(q, field)

\* ParserBuilder::insert: VecDeque::insert(index, field), index is 0-based
\* and at most Len(q); the element previously at index moves behind the new one
insert(q, index, field) ==
    SubSeq(q, 1, index) \o <<field>> \o SubSeq(q, index + 1, Len(q))

----------------------------------------------------------------------------
(* Outcomes of build *)

NotBuilt == [state |-> "none", fields |-> <<>>, msg |-> "", by |-> ""]
Panic(msg, by) == [state |-> "panic", fields |-> <<>>, msg |-> msg, by |-> by]
Parser(fs, by) == [state |-> "ok", fields |-> fs, msg |-> "", by |-> by]

----------------------------------------------------------------------------
(* ParserBuilder::build of src/flat/fixed/builder.rs *)

before_marker_or_at(p, position) == p <= position

\* the ordering test of build: an explicit position before the cursor
before_marker(p, position) == p < position

advance_not(position, w) == position

\* the cursor after a field of width w
advance(position, w) == position + w

RECURSIVE build_loop(_, _, _, _)
build_loop(q, acc, position, index) ==
    IF q = <<>> THEN Parser(acc, "builder.rs")
    ELSE LET current == [Head(q) EXCEPT !.index = Some(index)]
         IN IF is_some(current.position) /\ before_marker(unwrap(current.position), position)
            THEN Panic("Position before current marker", "builder.rs")
            ELSE LET pos1 == IF is_some(current.position)
                             THEN unwrap(current.position) ELSE position
                     cur1 == [current EXCEPT !.position = Some(pos1)]
                 IN IF is_none(cur1.width)
                    THEN Panic("Width must be defined", "builder.rs")
                    ELSE build_loop(Tail(q), Append(acc, cur1),
                                    advance(pos1, unwrap(cur1.width)), index + 1)

build(q) == build_loop(q, <<>>, 0, 0)

----------------------------------------------------------------------------
(* builder::ParserBuilder::build of src/flat/fixed/mod.rs *)

\* the width given to a previous field that has none: the gap up to position
inferred_width(previous, position) == position - unwrap(previous.position)

infer_previous_always(acc, position) ==
    IF acc # <<>>
    THEN [acc EXCEPT ![Len(acc)].width = Some(inferred_width(acc[Len(acc)], position))]
    ELSE acc

\* fields.last_mut(): the previous field gets its width from the gap
infer_previous(acc, position) ==
    IF acc # <<>> /\ is_none(acc[Len(acc)].width)
    THEN [acc EXCEPT ![Len(acc)].width = Some(inferred_width(acc[Len(acc)], position))]
    ELSE acc

RECURSIVE builder_build_loop(_, _, _, _)
builder_build_loop(q, acc, position, index) ==
    IF q = <<>> THEN Parser(acc, "mod.rs")
    ELSE LET current == [Head(q) EXCEPT !.index = Some(index)]
         IN IF is_some(current.position)
            THEN IF before_marker(unwrap(current.position), position)
                 THEN Panic("Position before current marker", "mod.rs")
                 ELSE LET pos1 == unwrap(current.position)
                          acc1 == infer_previous(acc, pos1)
                          pos2 == IF is_some(current.width)
                                  THEN advance(pos1, unwrap(current.width)) ELSE pos1
                      IN builder_build_loop(Tail(q), Append(acc1, current), pos2, index + 1)
            ELSE IF is_none(current.width)
                 THEN Panic("Either position or width must be specified", "mod.rs")
                 ELSE builder_build_loop(Tail(q),
                          Append(acc, [current EXCEPT !.position = Some(position)]),
                          advance(position, unwrap(current.width)), index + 1)

builder_build(q) == builder_build_loop(q, <<>>, 0, 0)

----------------------------------------------------------------------------
(* Strings: sequences of Unicode scalar values with their UTF-8 lengths *)

\* the scalars of the model: two of one byte, U+00E9 (2 bytes), U+4F1A (3 bytes)
Scalars == {"a", "X", "U+00E9", "U+4F1A"}

\* char::len_utf8
len_utf8(c) == IF c = "U+00E9" THEN 2 ELSE IF c = "U+4F1A" THEN 3 ELSE 1

\* str::len: the length in bytes
RECURSIVE len_bytes(_)
len_bytes(s) == IF s = <<>> THEN 0 ELSE len_utf8(Head(s)) + len_bytes(Tail(s))

\* s.chars().count()
chars_count(s) == Len(s)

\* the byte offset of the k-th scalar (k = 1..Len(s) + 1), as char_indices gives it
byte_index(s, k) == len_bytes(SubSeq(s, 1, k - 1))

\* a returned string, and a panic of the call
StrOk(v) == [panic |-> FALSE, value |-> v]
StrPanic == [panic |-> TRUE, value |-> <<>>]

\* s.get(0..end): the scalars before byte offset end, None when end is past
\* the string or inside a scalar
get_to(s, end) ==
    IF \E k \in 0..Len(s) : len_bytes(SubSeq(s, 1, k)) = end
    THEN Some(SubSeq(s, 1, CHOOSE k \in 0..Len(s) : len_bytes(SubSeq(s, 1, k)) = end))
    ELSE None

\* &s[..end]: byte slicing, which panics where get gives None
slice_to(s, end) ==
    IF is_some(get_to(s, end)) THEN StrOk(unwrap(get_to(s, end))) ELSE StrPanic

\* _truncate
truncate_(s, width, len) ==
    IF len > width THEN slice_to(s, width) ELSE StrOk(s)

\* truncate
truncate(s, width) == truncate_(s, width, chars_count(s))

\* n copies of the scalar c
RECURSIVE repeat(_, _)
repeat(c, n) == IF n <= 0 THEN <<>> ELSE <<c>> \o repeat(c, n - 1)

pad_append_only(s, width, al, pad_char, len) ==
    IF len < width THEN StrOk(s \o repeat(pad_char, width - len)) ELSE StrOk(s)

\* _pad
pad_(s, width, al, pad_char, len) ==
    IF len < width
    THEN IF al = Left
         THEN StrOk(s \o repeat(pad_char, width - len))
         ELSE StrOk(repeat(pad_char, width - len) \o s)
    ELSE StrOk(s)

\* pad
pad(s, width, al, pad_char) == pad_(s, width, al, pad_char, chars_count(s))

\* fixed_width
fixed_width(s, width, al, pad_char) ==
    LET len == chars_count(s)
    IN IF width < len THEN truncate_(s, width, len)
       ELSE IF width > len THEN pad_(s, width, al, pad_char, len)
       ELSE StrOk(s)

strip_end_once(s, k, pad_char, end) == byte_index(s, k)

\* the loop of strip_padding's Left arm: end after visiting the scalars
\* k..Len(s) from the back, stopping at the first one that is not pad_char
RECURSIVE strip_end(_, _, _, _)
strip_end(s, k, pad_char, end) ==
    IF k = 0 THEN end
    ELSE IF s[k] = pad_char THEN strip_end(s, k - 1, pad_char, byte_index(s, k))
    ELSE end

skip_first(s, pad_char) ==
    IF s # <<>> /\ Head(s) = pad_char THEN Tail(s) ELSE s

\* skip_while(|c| *c == pad_char)
RECURSIVE skip_while(_, _)
skip_while(s, pad_char) ==
    IF s # <<>> /\ Head(s) = pad_char THEN skip_while(Tail(s), pad_char) ELSE s

\* strips the other side: leading padding for Left, trailing for Right
strip_padding_swapped(s, al, pad_char) ==
    IF al = Left
    THEN StrOk(skip_while(s, pad_char))
    ELSE IF s # <<>> /\ s[Len(s)] = pad_char
         THEN StrOk(unwrap(get_to(s, strip_end(s, Len(s), pad_char, len_bytes(s)))))
         ELSE StrOk(s)

\* strip_padding
strip_padding(s, al, pad_char) ==
    IF al = Left
    THEN IF s # <<>> /\ s[Len(s)] = pad_char
         THEN LET end == strip_end(s, Len(s), pad_char, len_bytes(s))
              IN IF is_some(get_to(s, end)) THEN StrOk(unwrap(get_to(s, end))) ELSE StrPanic
         ELSE StrOk(s)
    ELSE IF s # <<>> /\ Head(s) = pad_char
         THEN StrOk(skip_while(s, pad_char))
         ELSE StrOk(s)

----------------------------------------------------------------------------
(* Layout (Parser): total width, format and parse, as the specification
   describes them (sections 3, 4.3 and 4.4) *)

\* the end of a resolved field
range_end(f) == unwrap(f.position) + unwrap(f.width)

\* totalWidth = max(range.end) across all fields, 0 if empty
total_width(fs) ==
    IF fs = <<>> THEN 0
    ELSE CHOOSE m \in {range_end(fs[k]) : k \in 1..Len(fs)} :
             \A k \in 1..Len(fs) : range_end(fs[k]) <= m

\* record[field.name], empty text if the field is unnamed or absent
lookup(rec, name) ==
    IF is_some(name) /\ unwrap(name) \in DOMAIN rec THEN rec[unwrap(name)] ELSE <<>>

\* format: the fields' fixed_width outputs concatenated in index order
RECURSIVE format_from(_, _, _)
format_from(fs, rec, k) ==
    IF k > Len(fs) THEN StrOk(<<>>)
    ELSE LET out == fixed_width(lookup(rec, fs[k].name), unwrap(fs[k].width),
                                fs[k].align, fs[k].padding)
             rest == format_from(fs, rec, k + 1)
         IN IF out.panic \/ rest.panic THEN StrPanic
            ELSE StrOk(out.value \o rest.value)

format(fs, rec) == format_from(fs, rec, 1)

\* the outcomes of parse
Parsed(rec) == [state |-> "ok", record |-> rec, required |-> 0, available |-> None]
InsufficientBuffer(required, available) ==
    [state |-> "InsufficientBuffer", record |-> <<>>,
     required |-> required, available |-> available]
ParsePanic == [state |-> "panic", record |-> <<>>, required |-> 0, available |-> None]

\* the record with name -> value added unless name is already a key (first write wins)
insert_first(rec, name, value) ==
    IF name \in DOMAIN rec THEN rec
    ELSE [n \in DOMAIN rec \cup {name} |-> IF n = name THEN value ELSE rec[n]]

\* parse's loop: consume the line field by field from scalar `at`, each field
\* taking exactly its width; named fields are stripped and recorded
RECURSIVE parse_from(_, _, _, _, _)
parse_from(fs, text, k, at, rec) ==
    IF k > Len(fs) THEN Parsed(rec)
    ELSE LET w == unwrap(fs[k].width)
             taken == SubSeq(text, at + 1, at + w)
         IN IF is_none(fs[k].name)
            THEN parse_from(fs, text, k + 1, at + w, rec)
            ELSE LET value == strip_padding(taken, fs[k].align, fs[k].padding)
                 IN IF value.panic THEN ParsePanic
                    ELSE parse_from(fs, text, k + 1, at + w,
                                    insert_first(rec, unwrap(fs[k].name), value.value))

\* parse: the line must supply at least totalWidth scalars
parse(fs, text) ==
    IF chars_count(text) < total_width(fs)
    THEN InsufficientBuffer(total_width(fs), Some(chars_count(text)))
    ELSE parse_from(fs, text, 1, 0, <<>>)

----------------------------------------------------------------------------
(* The builder as a state machine *)

\* ParserBuilder::new, no FieldBuilder, no build call yet
NewBuilder ==
    /\ fields = <<>>
    /\ align = Left
    /\ padding = " "
    /\ fb = None
    /\ parser = NotBuilt
    /\ declarations = <<>>
    /\ inserted = None
    /\ call = None
    /\ built_before = NotBuilt

\* no string primitive is in use
NoStrings ==
    /\ str_width = 0
    /\ str_align = Left
    /\ str_padding = " "
    /\ last_op = ""
    /\ chars_in = <<>>
    /\ chars_out = StrOk(<<>>)
    /\ prev_op = ""
    /\ prev_in = <<>>

\* no record is being formatted or parsed
NoCodec ==
    /\ record = <<>>
    /\ line = None
    /\ parsed = None

\* what next() returned: nothing yet, None, Some(record), or a panic of the
\* call; `at` is the number of the line the call took (0 at end of input)
NotCalled == [state |-> "new", at |-> 0, record |-> <<>>]
ItemNone(at) == [state |-> "None", at |-> at, record |-> <<>>]
ItemSome(at, rec) == [state |-> "Some", at |-> at, record |-> rec]
ItemPanic(at) == [state |-> "panic", at |-> at, record |-> <<>>]

\* no reader is in use
NoReader ==
    /\ lines = <<>>
    /\ consumed = <<>>
    /\ item = NotCalled
    /\ ended = FALSE
    /\ yielded = <<>>

Init == NewBuilder /\ NoStrings /\ NoCodec /\ NoReader

\* a panic unwinds the construction: nothing is called after it
Running == parser.state # "panic"

\* ParserBuilder::field
BuilderField ==
    /\ Running /\ is_none(fb) /\ Len(fields) < MaxFields
    /\ \E name \in Names : fb' = Some(FieldBuilder_new(Some(name), align, padding))
    /\ parser' = NotBuilt /\ declarations' = <<>> /\ inserted' = None /\ call' = None
    /\ built_before' = NotBuilt
    /\ UNCHANGED <<fields, align, padding, svars, cvars, rvars>>

\* ParserBuilder::spacer, for the ranges start..start+w
BuilderSpacer ==
    /\ Running /\ is_none(fb) /\ Len(fields) < MaxFields
    /\ \E start \in Positions : \E w \in Widths :
          fb' = Some(range_fb(FieldBuilder_new(None, align, padding), start, start + w))
    /\ parser' = NotBuilt /\ declarations' = <<>> /\ inserted' = None /\ call' = None
    /\ built_before' = NotBuilt
    /\ UNCHANGED <<fields, align, padding, svars, cvars, rvars>>

\* FieldBuilder::position
FieldPosition ==
    /\ Running /\ is_some(fb)
    /\ \E p \in Positions : fb' = Some(position_fb(unwrap(fb), p))
    /\ call' = None
    /\ UNCHANGED built_before
    /\ UNCHANGED <<fields, align, padding, parser, declarations, inserted, svars, cvars, rvars>>

\* FieldBuilder::width
FieldWidth ==
    /\ Running /\ is_some(fb)
    /\ \E w \in Widths : fb' = Some(width_fb(unwrap(fb), w))
    /\ call' = None
    /\ UNCHANGED built_before
    /\ UNCHANGED <<fields, align, padding, parser, declarations, inserted, svars, cvars, rvars>>

\* FieldBuilder::range, for the ranges start..start+w
FieldRange ==
    /\ Running /\ is_some(fb)
    /\ \E start \in Positions : \E w \in Widths :
          fb' = Some(range_fb(unwrap(fb), start, start + w))
    /\ call' = None
    /\ UNCHANGED built_before
    /\ UNCHANGED <<fields, align, padding, parser, declarations, inserted, svars, cvars, rvars>>

\* FieldBuilder::align
FieldAlign ==
    /\ Running /\ is_some(fb)
    /\ \E arg \in AlignArgs :
          /\ fb' = Some(align_fb(unwrap(fb), arg))
          /\ call' = Some([op |-> "align", arg |-> arg])
    /\ UNCHANGED built_before
    /\ UNCHANGED <<fields, align, padding, parser, declarations, inserted, svars, cvars, rvars>>

\* FieldBuilder::padding
FieldPadding ==
    /\ Running /\ is_some(fb)
    /\ \E c \in PadChars :
          /\ fb' = Some(padding_fb(unwrap(fb), c))
          /\ call' = Some([op |-> "padding", arg |-> c])
    /\ UNCHANGED built_before
    /\ UNCHANGED <<fields, align, padding, parser, declarations, inserted, svars, cvars, rvars>>

\* ParserBuilder::default_align
BuilderDefaultAlign ==
    /\ Running /\ is_none(fb)
    /\ \E arg \in AlignArgs :
          /\ align' = default_align(align, arg)
          /\ call' = Some([op |-> "default_align", arg |-> arg])
    /\ UNCHANGED built_before
    /\ UNCHANGED <<fields, padding, fb, parser, declarations, inserted, svars, cvars, rvars>>

\* ParserBuilder::default_padding
BuilderDefaultPadding ==
    /\ Running /\ is_none(fb)
    /\ \E c \in PadChars :
          /\ padding' = c
          /\ call' = Some([op |-> "default_padding", arg |-> c])
    /\ UNCHANGED built_before
    /\ UNCHANGED <<fields, align, fb, parser, declarations, inserted, svars, cvars, rvars>>

\* FieldBuilder::append
FieldAppend ==
    /\ Running /\ is_some(fb)
    /\ fields' = append(fields, build_field(unwrap(fb)))
    /\ fb' = None
    /\ inserted' = None
    /\ call' = None
    /\ UNCHANGED built_before
    /\ UNCHANGED <<align, padding, parser, declarations, svars, cvars, rvars>>

\* FieldBuilder::insert; VecDeque::insert panics when index > len
FieldInsert ==
    /\ Running /\ is_some(fb)
    /\ \E index \in 0..MaxFields :
          IF index <= Len(fields)
          THEN /\ fields' = insert(fields, index, build_field(unwrap(fb)))
               /\ fb' = None
               /\ inserted' = Some(index)
               /\ UNCHANGED <<parser, declarations>>
          ELSE /\ parser' = Panic("index out of bounds", "insert")
               /\ fb' = None
               /\ UNCHANGED <<fields, declarations, inserted>>
    /\ call' = None
    /\ UNCHANGED built_before
    /\ UNCHANGED <<align, padding, svars, cvars, rvars>>

Build_keeps ==
    /\ Running /\ is_none(fb)
    /\ parser' = build(fields)
    /\ declarations' = fields
    /\ call' = None
    /\ built_before' = parser
    /\ UNCHANGED <<fields, align, padding, fb, inserted, svars, cvars, rvars>>

\* ParserBuilder::build (builder.rs): drains the queue
Build ==
    /\ Running /\ is_none(fb)
    /\ parser' = build(fields)
    /\ declarations' = fields
    /\ fields' = <<>>
    /\ call' = None
    /\ built_before' = parser
    /\ UNCHANGED <<align, padding, fb, inserted, svars, cvars, rvars>>

\* builder::ParserBuilder::build (mod.rs): drains the queue
ModBuild ==
    /\ Running /\ is_none(fb)
    /\ parser' = builder_build(fields)
    /\ declarations' = fields
    /\ fields' = <<>>
    /\ call' = None
    /\ built_before' = parser
    /\ UNCHANGED <<align, padding, fb, inserted, svars, cvars, rvars>>

Next ==
    \/ BuilderField
    \/ BuilderSpacer
    \/ FieldPosition
    \/ FieldWidth
    \/ FieldRange
    \/ FieldAppend
    \/ FieldInsert
    \/ Build
    \/ ModBuild

Spec == Init /\ [][Next]_vars

----------------------------------------------------------------------------
(* The builder's alignment and padding: the defaults, the per-field
   overrides, and the declarations that take them *)

AlignNext ==
    \/ BuilderDefaultAlign
    \/ BuilderDefaultPadding
    \/ BuilderField
    \/ BuilderSpacer
    \/ FieldAlign
    \/ FieldPadding
    \/ FieldWidth
    \/ FieldAppend
    \/ Build

AlignSpec == Init /\ [][AlignNext]_vars

----------------------------------------------------------------------------
(* The string primitives, called one after the other on a string: each call
   takes the string the previous call returned *)

\* all strings of at most n scalars
RECURSIVE Strings(_)
Strings(n) ==
    IF n = 0 THEN {<<>>}
    ELSE Strings(n - 1) \cup {Append(t, c) : t \in {u \in Strings(n - 1) : Len(u) = n - 1}, c \in Scalars}

StrInit ==
    /\ NewBuilder
    /\ NoCodec
    /\ NoReader
    /\ str_width \in 0..MaxStrWidth
    /\ str_align \in {Left, Right}
    /\ str_padding \in Scalars
    /\ last_op = ""
    /\ chars_in = <<>>
    /\ prev_op = ""
    /\ prev_in = <<>>
    /\ \E t \in Strings(MaxLen) : chars_out = StrOk(t)

\* a panic ends the caller
Alive == ~chars_out.panic

Called(name, res) ==
    /\ last_op' = name
    /\ chars_in' = chars_out.value
    /\ chars_out' = res
    /\ prev_op' = last_op
    /\ prev_in' = chars_in
    /\ UNCHANGED <<str_width, str_align, str_padding, bvars, cvars, rvars>>

CallTruncate ==
    Alive /\ Called("truncate", truncate(chars_out.value, str_width))

CallPad ==
    Alive /\ Called("pad", pad(chars_out.value, str_width, str_align, str_padding))

CallFixedWidth ==
    Alive /\ Called("fixed_width",
                    fixed_width(chars_out.value, str_width, str_align, str_padding))

CallStripPadding ==
    Alive /\ Called("strip_padding", strip_padding(chars_out.value, str_align, str_padding))

StrNext ==
    \/ CallTruncate
    \/ CallPad
    \/ CallFixedWidth
    \/ CallStripPadding

StrSpec == StrInit /\ [][StrNext]_vars

----------------------------------------------------------------------------
(* The codec: a layout returned by build (builder.rs) formats a record and
   parses the line back *)

CodecNames == {"a", "b"}
CodecScalars == {"a", "X", "U+00E9"}
CodecPadding == "X"

\* the declarations a FieldBuilder chain can append: field(name) or a spacer,
\* with or without position, with a width, an alignment, padding 'X'
CodecDecls ==
    { Field_new(n, p, Some(w), a, CodecPadding) :
        n \in {None} \cup {Some(x) : x \in CodecNames},
        p \in {None} \cup {Some(x) : x \in 0..MaxCodecPos},
        w \in 0..MaxCodecWidth,
        a \in {Left, Right} }

\* all declaration lists of at most n declarations
RECURSIVE DeclLists(_)
DeclLists(n) ==
    IF n = 0 THEN {<<>>}
    ELSE DeclLists(n - 1)
         \cup {Append(l, d) : l \in {m \in DeclLists(n - 1) : Len(m) = n - 1}, d \in CodecDecls}

\* all strings over CodecScalars of at most n scalars
RECURSIVE CodecStrings(_)
CodecStrings(n) ==
    IF n = 0 THEN {<<>>}
    ELSE CodecStrings(n - 1)
         \cup {Append(t, c) : t \in {u \in CodecStrings(n - 1) : Len(u) = n - 1},
                              c \in CodecScalars}

\* the names of the named fields of a layout
layout_names(fs) == {unwrap(fs[k].name) : k \in {j \in 1..Len(fs) : is_some(fs[j].name)}}

\* the records over any subset of the names
Records ==
    UNION {[keys -> CodecStrings(MaxValueLen)] : keys \in SUBSET CodecNames}

CodecInit ==
    /\ fields = <<>> /\ align = Left /\ padding = " " /\ fb = None /\ inserted = None
    /\ call = None
    /\ built_before = NotBuilt
    /\ NoStrings
    /\ NoReader
    /\ \E ds \in DeclLists(MaxCodecFields) :
          /\ build(ds).state = "ok"
          /\ declarations = ds
          /\ parser = build(ds)
    /\ record \in Records
    /\ line = None
    /\ parsed = None

\* Layout::format
Format ==
    /\ is_none(line)
    /\ line' = Some(format(parser.fields, record))
    /\ UNCHANGED <<bvars, svars, rvars, record, parsed>>

\* Layout::parse, of the line format returned
Parse ==
    /\ is_some(line) /\ ~unwrap(line).panic /\ is_none(parsed)
    /\ parsed' = Some(parse(parser.fields, unwrap(line).value))
    /\ UNCHANGED <<bvars, svars, rvars, record, line>>

CodecNext ==
    \/ Format
    \/ Parse

CodecSpec == CodecInit /\ [][CodecNext]_vars

----------------------------------------------------------------------------
(* The reader: StringReader over the lines of a source, with a layout
   returned by build (builder.rs) *)

\* the items of Lines<BufReader<R>>: Some(Ok(s)) for a line read, Some(Err(e))
\* for a line that could not be read (bytes that are not UTF-8, an I/O error)
LineOk(t) == [ok |-> TRUE, text |-> t]
LineErr == [ok |-> FALSE, text |-> <<>>]

\* the fields of the layout that lie entirely within the text: the longest
\* prefix of fs whose widths the text can supply
RECURSIVE reached(_, _, _)
reached(fs, k, left) ==
    IF k > Len(fs) \/ unwrap(fs[k].width) > left THEN SubSeq(fs, 1, k - 1)
    ELSE reached(fs, k + 1, left - unwrap(fs[k].width))

\* StringReader::parse: returns the HashMap of parser.parse(s).  Its return
\* type has no place for an error: on a line too short for the layout the
\* call either unwinds or returns the fields that could be read.
reader_parse(fs, text) ==
    LET res == parse(fs, text)
    IN IF res.state = "InsufficientBuffer"
       THEN {ParsePanic, parse_from(reached(fs, 1, chars_count(text)), text, 1, 0, <<>>)}
       ELSE {res}

ReaderScalars == {"a", "X", "U+4F1A"}
ReaderPadding == "X"
ReaderName == "test"

\* spacer(0..a), as appended
SpacerDecl(a) == build_field(range_fb(FieldBuilder_new(None, Left, " "), 0, a))

\* field("test").range(a..b).align(al).padding(c), as appended
FieldDecl(a, b, al, c) ==
    build_field(padding_fb(align_fb(range_fb(FieldBuilder_new(Some(ReaderName), Left, " "),
                                             a, b), AlignValue(al)), c))

\* the declaration lists of the reader's layouts: one field over 0..b, or
\* a spacer over 0..a followed by a field over a..b
ReaderDecls ==
    { <<FieldDecl(0, b, al, ReaderPadding)>> : b \in 0..MaxEnd, al \in {Left, Right} }
    \cup { <<SpacerDecl(ab[1]), FieldDecl(ab[1], ab[2], al, ReaderPadding)>> :
              ab \in {x \in (0..MaxEnd) \X (0..MaxEnd) : x[1] <= x[2]}, al \in {Left, Right} }

\* all texts over ReaderScalars of at most n scalars
RECURSIVE ReaderStrings(_)
ReaderStrings(n) ==
    IF n = 0 THEN {<<>>}
    ELSE ReaderStrings(n - 1)
         \cup {Append(t, c) : t \in {u \in ReaderStrings(n - 1) : Len(u) = n - 1},
                              c \in ReaderScalars}

\* the items a source can give for one line
LineItems == {LineOk(t) : t \in ReaderStrings(MaxLineLen)} \cup {LineErr}

\* all sources of at most n lines
RECURSIVE Sources(_)
Sources(n) ==
    IF n = 0 THEN {<<>>}
    ELSE Sources(n - 1)
         \cup {Append(l, i) : l \in {m \in Sources(n - 1) : Len(m) = n - 1}, i \in LineItems}

\* Reader::from_reader and Reader::string_reader, on a built layout
ReaderInit ==
    /\ fields = <<>> /\ align = Left /\ padding = " " /\ fb = None /\ inserted = None
    /\ call = None
    /\ built_before = NotBuilt
    /\ NoStrings
    /\ NoCodec
    /\ \E ds \in ReaderDecls :
          /\ build(ds).state = "ok"
          /\ declarations = ds
          /\ parser = build(ds)
    /\ lines \in Sources(MaxLines)
    /\ consumed = <<>>
    /\ item = NotCalled
    /\ ended = FALSE
    /\ yielded = <<>>

\* Iterator::next of StringReader: Some(Ok(s)) gives Some(self.parse(s)),
\* anything else (end of input, a line that could not be read) gives None
ReaderNext ==
    /\ item.state # "panic"
    /\ IF lines = <<>>
       THEN /\ item' = ItemNone(0)
            /\ ended' = TRUE
            /\ UNCHANGED <<lines, consumed, yielded>>
       ELSE /\ lines' = Tail(lines)
            /\ consumed' = Append(consumed, Head(lines))
            /\ IF ~Head(lines).ok
               THEN /\ item' = ItemNone(Len(consumed) + 1)
                    /\ ended' = TRUE
                    /\ UNCHANGED yielded
               ELSE \E res \in reader_parse(parser.fields, Head(lines).text) :
                       /\ UNCHANGED ended
                       /\ IF res.state = "ok"
                          THEN /\ item' = ItemSome(Len(consumed) + 1, res.record)
                               /\ yielded' = Append(yielded,
                                      [at |-> Len(consumed) + 1, record |-> res.record,
                                       collected |-> ~ended])
                          ELSE /\ item' = ItemPanic(Len(consumed) + 1)
                               /\ UNCHANGED yielded
    /\ UNCHANGED <<bvars, svars, cvars>>

ReaderSpec == ReaderInit /\ [][ReaderNext]_vars

----------------------------------------------------------------------------
(* Vocabulary of the layout properties *)

Built == parser.state \in {"ok", "panic"} /\ parser.by \in {"builder.rs", "mod.rs"}
Returned == parser.state = "ok"
ByBuilderRs == parser.by = "builder.rs"
ByModRs == parser.by = "mod.rs"

\* every declaration of ds carries an explicit width
AllWidths(ds) == \A k \in 1..Len(ds) : is_some(ds[k].width)

\* the cursor when declaration k of ds is processed: 0 for the first one,
\* otherwise the end of declaration k-1 (its explicit start, or else its own
\* cursor, plus its width)
RECURSIVE Cursor(_, _)
Cursor(ds, k) ==
    IF k = 1 THEN 0
    ELSE (IF is_some(ds[k-1].position) THEN unwrap(ds[k-1].position) ELSE Cursor(ds, k-1))
         + unwrap(ds[k-1].width)

\* some declaration carries an explicit start strictly before its cursor
BackwardStart(ds) ==
    \E k \in 1..Len(ds) : is_some(ds[k].position) /\ unwrap(ds[k].position) < Cursor(ds, k)

\* C1: with every width explicit, build fails (and returns no layout at all)
\* exactly when some declaration has an explicit start strictly before the
\* cursor; an explicit start at or after the cursor is kept, and the cursor
\* moves to it (the next declaration without a start begins at its end).
C1_OrderingFailure ==
    (Built /\ AllWidths(declarations)) =>
        /\ (parser.state = "panic") <=> BackwardStart(declarations)
        /\ parser.state = "panic" =>
              parser.fields = <<>> /\ parser.msg = "Position before current marker"
        /\ Returned =>
              \A k \in 1..Len(declarations) :
                  is_some(declarations[k].position) =>
                      /\ parser.fields[k].position = declarations[k].position
                      /\ (k < Len(declarations) /\ is_none(declarations[k+1].position)) =>
                            unwrap(parser.fields[k+1].position)
                              = unwrap(declarations[k].position) + unwrap(declarations[k].width)

\* C1 witnesses: a build that failed on a start one before the cursor, and
\* (same state space) one that accepted a start equal to the cursor
C1_Witness ==
    /\ parser.state = "panic" /\ ByBuilderRs
    /\ Len(declarations) = 2 /\ AllWidths(declarations)
    /\ is_some(declarations[2].position)
    /\ unwrap(declarations[2].position) + 1 = Cursor(declarations, 2)

\* the resolved fields of the returned layout
Layout == parser.fields

\* C2: in a returned layout consecutive fields are in non-decreasing start
\* order and do not overlap: start(i) + width(i) <= start(i+1).
C2_NonOverlapping ==
    Returned =>
        \A k \in 1..(Len(Layout) - 1) :
            /\ is_some(Layout[k].position) /\ is_some(Layout[k+1].position)
            /\ is_some(Layout[k].width)
            /\ unwrap(Layout[k].position) <= unwrap(Layout[k+1].position)
            /\ unwrap(Layout[k].position) + unwrap(Layout[k].width)
                  <= unwrap(Layout[k+1].position)

\* declaration k of ds has no explicit width and no following declaration
\* with an explicit start closes it
OpenWidth(ds, k) ==
    /\ is_none(ds[k].width)
    /\ (k = Len(ds) \/ is_none(ds[k+1].position))

\* C3: every field of a returned layout has its start and its width
\* determined, and a declaration list with a width that stays open makes
\* build fail.
C3_FullyResolved ==
    /\ Returned =>
          \A k \in 1..Len(Layout) : is_some(Layout[k].position) /\ is_some(Layout[k].width)
    /\ (Built /\ \E k \in 1..Len(declarations) : OpenWidth(declarations, k)) =>
          parser.state = "panic"

\* declaration k of ds has a start and no width, and declaration k+1 has an
\* explicit start not before it (the cursor is still at the start of k)
GapPair(ds, k) ==
    /\ k < Len(ds)
    /\ is_some(ds[k].position) /\ is_none(ds[k].width)
    /\ is_some(ds[k+1].position)
    /\ unwrap(ds[k+1].position) >= unwrap(ds[k].position)

\* the gap between the starts of declarations k and k+1
Gap(ds, k) == unwrap(ds[k+1].position) - unwrap(ds[k].position)

\* ds with the width of declaration k set to the gap
Filled(ds, k) == [ds EXCEPT ![k].width = Some(Gap(ds, k))]

\* C4: when a declaration with an explicit start follows one with a start
\* and no width (the rest of the list being resolvable), build succeeds and
\* the earlier field gets the gap between the two starts as its width.
C4_GapBecomesWidth ==
    Built =>
        \A k \in 1..Len(declarations) :
            (/\ GapPair(declarations, k)
             /\ AllWidths(Filled(declarations, k))
             /\ ~BackwardStart(Filled(declarations, k)))
            => /\ Returned
               /\ Layout[k].width = Some(Gap(declarations, k))

\* the end of field k of the layout
FieldEnd(fs, k) == unwrap(fs[k].position) + unwrap(fs[k].width)

\* C5: build (builder.rs) gives a declaration without a start the cursor (0
\* for the first one, else the end of the preceding resolved field), keeps
\* an explicit start as it is, and never alters a declared width.
C5_StartFromCursor ==
    (Returned /\ ByBuilderRs) =>
        /\ Len(Layout) = Len(declarations)
        /\ \A k \in 1..Len(declarations) :
              /\ is_none(declarations[k].position) =>
                    Layout[k].position = Some(IF k = 1 THEN 0 ELSE FieldEnd(Layout, k - 1))
              /\ is_some(declarations[k].position) =>
                    Layout[k].position = declarations[k].position
              /\ Layout[k].width = declarations[k].width

\* C5 witness: a second declaration without a start was placed at the end of
\* a first one that does not end at 0
C5_Witness ==
    /\ Returned /\ ByBuilderRs /\ Len(declarations) = 2
    /\ is_some(declarations[1].position) /\ unwrap(declarations[1].position) > 0
    /\ unwrap(declarations[1].width) > 0
    /\ is_none(declarations[2].position)
    /\ unwrap(Layout[2].position) = FieldEnd(Layout, 1)

\* the layout keeps the order and the attributes of the declarations, with
\* sequential 0-based indices, and resolves starts along that order
OrderKept ==
    (Returned /\ ByBuilderRs) =>
        /\ Len(Layout) = Len(declarations)
        /\ \A k \in 1..Len(Layout) :
              /\ Layout[k].index = Some(k - 1)
              /\ Layout[k].name = declarations[k].name
              /\ Layout[k].width = declarations[k].width
              /\ Layout[k].align = declarations[k].align
              /\ Layout[k].padding = declarations[k].padding
              /\ (k > 1 /\ is_none(declarations[k].position)) =>
                    unwrap(Layout[k].position) = FieldEnd(Layout, k - 1)

\* an append step puts the declaration last; an insert(i) step puts it before
\* the declaration previously at position i (0-based) and moves nothing else
PlacedAsAsked ==
    (is_some(fb) /\ is_none(fb') /\ fields' # fields) =>
        LET new == build_field(unwrap(fb))
            i == IF is_some(inserted') THEN unwrap(inserted') ELSE Len(fields)
        IN /\ Len(fields') = Len(fields) + 1
           /\ fields'[i + 1] = new
           /\ \A j \in 1..i : fields'[j] = fields[j]
           /\ \A j \in (i + 1)..Len(fields) : fields'[j + 1] = fields[j]

\* C6: field k of a returned layout has index k, and the layout follows the
\* final declaration order left by the append and insert(i) operations, not
\* the order in which the declarations were made.
C6_FinalOrder == []OrderKept /\ [][PlacedAsAsked]_vars

\* C6 witness: a layout of two fields whose second-made declaration (a
\* spacer) was inserted at 0 and came out first, the first-made one (a named
\* field without a start) starting at its end
C6_Witness ==
    /\ Returned /\ ByBuilderRs /\ Len(Layout) = 2
    /\ inserted = Some(0)
    /\ Layout[1].index = Some(0) /\ Layout[2].index = Some(1)
    /\ is_none(Layout[1].name) /\ is_some(Layout[2].name)
    /\ is_none(declarations[2].position)
    /\ unwrap(Layout[2].position) = FieldEnd(Layout, 1)
    /\ FieldEnd(Layout, 1) > 0

----------------------------------------------------------------------------
(* Properties of alignment, padding and widths in the builder *)

\* the call c set a field's alignment from a text token that is not recognized
UnrecognizedAlign(c) ==
    /\ is_some(c) /\ unwrap(c).op = "align"
    /\ unwrap(c).arg.kind = "str" /\ is_none(Align_try_from(unwrap(c).arg.v))

\* C17 as stated: after align(token) with an unrecognized token the
\* construction goes on and the field has the builder's current default
\* alignment, whatever was set on that field before.
C17_FallsBackToDefault ==
    (is_some(fb) /\ UnrecognizedAlign(call)) =>
        /\ Running
        /\ unwrap(fb).align = align

\* C17 amended: align(token) with an unrecognized token never aborts
\* construction and leaves the field as it was, its alignment included: the
\* builder's default alignment if no alignment was set on that field before,
\* else the alignment set last.
C17_KeepsPreviousAlign ==
    [][UnrecognizedAlign(call') => (Running' /\ is_some(fb) /\ fb' = fb /\ fields' = fields)]_vars

\* C17 witness: a field set to Right under a Left default kept Right through
\* align("banana")
C17_Witness ==
    /\ Running /\ is_some(fb)
    /\ UnrecognizedAlign(call) /\ unwrap(call).arg = Token(<<"b", "a", "n", "a", "n", "a">>)
    /\ unwrap(fb).align = Right
    /\ align = Left

\* field(name) and spacer(range) give the new declaration the defaults of
\* the moment and touch nothing else
DeclTakesDefaults ==
    (is_none(fb) /\ is_some(fb')) =>
        /\ unwrap(fb').align = align
        /\ unwrap(fb').padding = padding
        /\ fields' = fields /\ align' = align /\ padding' = padding

\* a call on the field in construction changes that field only; align and
\* padding change only their own attribute
OverrideOnlyField ==
    (is_some(fb) /\ is_some(fb')) =>
        /\ fields' = fields /\ align' = align /\ padding' = padding
        /\ (is_some(call') /\ unwrap(call').op = "align") =>
              /\ fb' = Some([unwrap(fb) EXCEPT !.align = unwrap(fb').align])
              /\ is_some(try_into(unwrap(call').arg)) =>
                    unwrap(fb').align = unwrap(try_into(unwrap(call').arg))
        /\ (is_some(call') /\ unwrap(call').op = "padding") =>
              fb' = Some([unwrap(fb) EXCEPT !.padding = unwrap(call').arg])

\* default_align and default_padding change their own default and nothing
\* else, and the defaults change in no other way
OnlyDefaults ==
    /\ (is_some(call') /\ unwrap(call').op = "default_align") =>
          fields' = fields /\ fb' = fb /\ padding' = padding
    /\ (is_some(call') /\ unwrap(call').op = "default_padding") =>
          fields' = fields /\ fb' = fb /\ align' = align /\ padding' = unwrap(call').arg
    /\ (align' # align \/ padding' # padding) =>
          is_some(call') /\ unwrap(call').op \in {"default_align", "default_padding"}

\* append queues the field with the alignment and padding it has, behind the
\* fields already appended, which stay as they are
AppendKeeps ==
    (is_some(fb) /\ is_none(fb') /\ Running') =>
        /\ Len(fields') = Len(fields) + 1
        /\ SubSeq(fields', 1, Len(fields)) = fields
        /\ fields'[Len(fields')].align = unwrap(fb).align
        /\ fields'[Len(fields')].padding = unwrap(fb).padding

\* a returned layout has the alignment and padding of its declarations
LayoutKeepsAlign ==
    Returned =>
        \A k \in 1..Len(Layout) :
            /\ Layout[k].align = declarations[k].align
            /\ Layout[k].padding = declarations[k].padding

\* C18: a declaration takes the builder's default alignment and padding of
\* the moment it is declared (Left and space at first); per-field overrides
\* change only that field; a later default_align or default_padding changes
\* only the defaults, never the fields already appended.
C18_DefaultsFrame ==
    /\ (align = Left /\ padding = " ")
    /\ [][DeclTakesDefaults /\ OverrideOnlyField /\ OnlyDefaults /\ AppendKeeps]_vars
    /\ []LayoutKeepsAlign

\* C18 witness: a field appended under the first defaults (Left, space) is
\* unchanged after both defaults were changed, and a spacer declared since
\* has the new defaults (Right, '-')
C18_Witness ==
    /\ Len(fields) = 1 /\ fields[1].align = Left /\ fields[1].padding = " "
    /\ align = Right /\ padding = "-"
    /\ is_some(fb) /\ is_none(unwrap(fb).name)
    /\ unwrap(fb).align = Right /\ unwrap(fb).padding = "-"

\* C19: every field of a returned layout that has a width has a width of at
\* least 1.
C19_PositiveWidth ==
    Returned =>
        \A k \in 1..Len(Layout) :
            is_some(Layout[k].width) => unwrap(Layout[k].width) >= 1

\* the step is a build call that returned
BuildReturned ==
    /\ is_none(fb) /\ is_none(fb') /\ call' = None
    /\ parser'.state = "ok"
    /\ built_before' = parser

\* the step is a build call that returned, right after a build call that
\* returned on the same builder
SecondBuildReturned == BuildReturned /\ parser.state = "ok"

\* a build call that returns leaves the queue empty and the defaults as
\* they were
Drains == BuildReturned => (fields' = <<>> /\ align' = align /\ padding' = padding)

\* C21 as stated: build drains the queue and leaves the defaults, so a
\* second build on the same builder returns an empty layout and never the
\* same layout again.
C21_SecondBuildDiffers ==
    [][/\ Drains
       /\ SecondBuildReturned =>
             (parser'.fields = <<>> /\ parser'.fields # parser.fields)]_vars

\* C21 amended: build drains the queue and leaves the defaults, so a second
\* build on the same builder returns an empty layout: not the first layout
\* again, unless that one was empty as well.
C21_SecondBuildEmpty ==
    [][/\ Drains
       /\ SecondBuildReturned =>
             /\ parser'.fields = <<>>
             /\ parser.fields # <<>> => parser'.fields # parser.fields]_vars

\* C21 witness: under defaults changed to Right and '-', a second build
\* returned the empty layout after a first one that returned a field
C21_Witness ==
    /\ Returned /\ Layout = <<>> /\ fields = <<>>
    /\ built_before.state = "ok" /\ Len(built_before.fields) = 1
    /\ align = Right /\ padding = "-"

\* the outcome of the other resolution pass on the same declarations
OtherPass == IF ByBuilderRs THEN builder_build(declarations) ELSE build(declarations)

\* C22: on declarations that all carry an explicit width, build of
\* builder.rs and build of mod.rs both fail or both return fields with the
\* same index, start and width in the same order.
C22_PassesAgree ==
    (Built /\ AllWidths(declarations)) =>
        /\ parser.state = OtherPass.state
        /\ Returned =>
              /\ Len(Layout) = Len(OtherPass.fields)
              /\ \A k \in 1..Len(Layout) :
                    /\ Layout[k].index = OtherPass.fields[k].index
                    /\ Layout[k].position = OtherPass.fields[k].position
                    /\ Layout[k].width = OtherPass.fields[k].width

\* C22 witness: mod.rs returned two fields, the second at an explicit start
\* beyond the end of the first, as builder.rs resolves them
C22_Witness ==
    /\ Returned /\ ByModRs /\ AllWidths(declarations)
    /\ Len(declarations) = 2
    /\ is_some(declarations[2].position)
    /\ unwrap(declarations[2].position) > FieldEnd(Layout, 1)
    /\ unwrap(Layout[1].width) > 0
    /\ Layout = build(declarations).fields

----------------------------------------------------------------------------
(* Properties of the string primitives *)

\* the first n scalars of s
FirstScalars(s, n) == SubSeq(s, 1, n)

\* C9: fixed_width is idempotent: a second fixed_width call with the same
\* width, alignment and padding on the string the first one returned gives
\* that string back.
C9_FixedWidthIdempotent ==
    [][(last_op = "fixed_width" /\ last_op' = "fixed_width") => chars_out' = chars_out]_vars

\* C10: truncate never panics; it returns the first `width` scalars of a
\* string of more than `width` scalars, and the string itself otherwise.
C10_TruncateByScalars ==
    last_op = "truncate" =>
        /\ ~chars_out.panic
        /\ chars_out.value = (IF chars_count(chars_in) > str_width
                              THEN FirstScalars(chars_in, str_width)
                              ELSE chars_in)

\* C11: pad returns s unchanged when s has at least `width` scalars;
\* otherwise the result has exactly `width` scalars and is s followed (Left)
\* or preceded (Right) by width - len(s) copies of the padding character, s
\* itself unmodified and contiguous.
C11_PadContract ==
    last_op = "pad" =>
        /\ ~chars_out.panic
        /\ LET s == chars_in
               out == chars_out.value
               n == str_width - chars_count(s)
           IN IF chars_count(s) >= str_width
              THEN out = s
              ELSE /\ chars_count(out) = str_width
                   /\ IF str_align = Left
                      THEN /\ SubSeq(out, 1, Len(s)) = s
                           /\ \A k \in (Len(s) + 1)..str_width : out[k] = str_padding
                      ELSE /\ SubSeq(out, n + 1, str_width) = s
                           /\ \A k \in 1..n : out[k] = str_padding

\* C11 witness: a string with a multi-byte scalar was padded by two
\* characters on the left (Right alignment)
C11_Witness ==
    /\ last_op = "pad" /\ str_align = Right /\ str_width = 3
    /\ chars_in = <<"U+4F1A">>
    /\ chars_out = StrOk(<<str_padding, str_padding, "U+4F1A">>)
    /\ str_padding # "U+4F1A"

\* the length of the maximal run of c at the end of s
RECURSIVE TrailingRun(_, _)
TrailingRun(s, c) ==
    IF s # <<>> /\ s[Len(s)] = c THEN 1 + TrailingRun(SubSeq(s, 1, Len(s) - 1), c) ELSE 0

\* the length of the maximal run of c at the start of s
RECURSIVE LeadingRun(_, _)
LeadingRun(s, c) ==
    IF s # <<>> /\ Head(s) = c THEN 1 + LeadingRun(Tail(s), c) ELSE 0

\* C12: strip_padding returns s without exactly its maximal trailing (Left)
\* or leading (Right) run of the padding character, everything else kept: the
\* empty string for a string of padding only, s itself when the stripped side
\* carries no padding.
C12_StripMaximalRun ==
    last_op = "strip_padding" =>
        /\ ~chars_out.panic
        /\ chars_out.value =
              (IF str_align = Left
               THEN SubSeq(chars_in, 1, Len(chars_in) - TrailingRun(chars_in, str_padding))
               ELSE SubSeq(chars_in, LeadingRun(chars_in, str_padding) + 1, Len(chars_in)))

\* C12 witness: a trailing run of two multi-byte padding characters was
\* removed from a Left-aligned string, the leading padding character kept
C12_Witness ==
    /\ last_op = "strip_padding" /\ str_align = Left /\ str_padding = "U+00E9"
    /\ chars_in = <<"U+00E9", "a", "U+00E9">>
    /\ chars_out = StrOk(<<"U+00E9", "a">>)

\* s carries no padding character on the side pad fills for alignment al
NoPadOnSide(s, al, pad_char) ==
    s # <<>> => (IF al = Left THEN s[Len(s)] # pad_char ELSE Head(s) # pad_char)

\* C20: strip_padding undoes pad on a string of at most `width` scalars that
\* does not end (Left) or start (Right) with the padding character.
C20_StripInvertsPad ==
    (/\ last_op = "strip_padding" /\ prev_op = "pad"
     /\ chars_count(prev_in) <= str_width
     /\ NoPadOnSide(prev_in, str_align, str_padding))
    => chars_out = StrOk(prev_in)

\* C20 witness: a one-scalar string padded on the left to three scalars with
\* a multi-byte padding character came back from strip_padding
C20_Witness ==
    /\ last_op = "strip_padding" /\ prev_op = "pad"
    /\ str_align = Right /\ str_width = 3 /\ str_padding = "U+00E9"
    /\ prev_in = <<"a">>
    /\ chars_in = <<"U+00E9", "U+00E9", "a">>
    /\ chars_out = StrOk(<<"a">>)

----------------------------------------------------------------------------
(* Properties of the codec *)

\* the sum of the widths of the fields
RECURSIVE sum_widths(_)
sum_widths(fs) == IF fs = <<>> THEN 0 ELSE unwrap(Head(fs).width) + sum_widths(Tail(fs))

\* the fields tile the line from offset 0: no gap before, between or after them
Contiguous(fs) == total_width(fs) = sum_widths(fs)

\* C7: for every layout build can return and every record, format returns a
\* text of exactly totalWidth scalars.  Stated on the layouts without gaps:
\* with a gap the concatenation of section 4.4 is shorter than the
\* max(range.end) of section 3 whatever fixed_width does.
C7_FormatWidth ==
    (is_some(line) /\ Contiguous(parser.fields)) =>
        /\ ~unwrap(line).panic
        /\ chars_count(unwrap(line).value) = total_width(parser.fields)

\* every named field has a value in the record, of exactly the field's width
ExactWidth(fs, rec) ==
    \A k \in 1..Len(fs) :
        is_some(fs[k].name) =>
            /\ unwrap(fs[k].name) \in DOMAIN rec
            /\ chars_count(rec[unwrap(fs[k].name)]) = unwrap(fs[k].width)

\* the record has no key that is not a field name of the layout
OnlyFieldNames(fs, rec) == DOMAIN rec \subseteq layout_names(fs)

\* parse returned exactly the record that was formatted
RoundTrip ==
    /\ unwrap(parsed).state = "ok"
    /\ unwrap(parsed).record = record

\* C8 as stated: whenever every named field's value has exactly the field's
\* width, parse(format(record)) = record.
C8_RoundTripExactWidth ==
    (is_some(parsed) /\ ExactWidth(parser.fields, record)) => RoundTrip

\* no value carries the padding character where its field is padded: at the
\* end for Left, at the start for Right
NoPaddingOnPaddedSide(fs, rec) ==
    \A k \in 1..Len(fs) :
        (is_some(fs[k].name) /\ unwrap(fs[k].name) \in DOMAIN rec) =>
            LET v == rec[unwrap(fs[k].name)]
            IN v # <<>> =>
                  IF fs[k].align = Left THEN v[Len(v)] # fs[k].padding
                  ELSE v[1] # fs[k].padding

\* C8 amended: for a layout whose fields are contiguous from offset 0 and a
\* record whose keys are the layout's field names, whose values have exactly
\* their field's width and no padding character on the padded side,
\* parse(format(record)) = record.
C8_RoundTripAmended ==
    (/\ is_some(parsed)
     /\ ExactWidth(parser.fields, record)
     /\ OnlyFieldNames(parser.fields, record)
     /\ Contiguous(parser.fields)
     /\ NoPaddingOnPaddedSide(parser.fields, record))
    => RoundTrip

\* C8 witness: a spacer and a Right-aligned named field, contiguous, whose
\* two-scalar value ends with the padding character, came back unchanged
C8_Witness ==
    /\ is_some(parsed) /\ RoundTrip
    /\ Len(parser.fields) = 2
    /\ is_none(parser.fields[1].name) /\ unwrap(parser.fields[1].width) > 0
    /\ parser.fields[2].name = Some("a") /\ parser.fields[2].align = Right
    /\ Contiguous(parser.fields)
    /\ ExactWidth(parser.fields, record)
    /\ record["a"] = <<"U+00E9", "X">>

----------------------------------------------------------------------------
(* Properties of the reader *)

\* the text has fewer scalars than the layout's total width
Short(text) == chars_count(text) < total_width(parser.fields)

\* a line that was read and is long enough for the layout
WellFormed(l) == l.ok /\ ~Short(l.text)

\* the last call of next() took a line that was read
TookLine == item.at > 0 /\ consumed[item.at].ok

\* the typed error as a return value of next()'s parse
ItemError(at, e) == [state |-> "Err", at |-> at, record |-> <<>>, error |-> e]

\* C13: parsing a line with fewer scalars than totalWidth returns the typed
\* error InsufficientBuffer(totalWidth, Some(scalar count)) to the caller,
\* produces no Record and does not abort the process.
C13_TypedErrorOnShortLine ==
    (TookLine /\ Short(consumed[item.at].text)) =>
        /\ item.state # "panic"
        /\ item.state # "Some"
        /\ \A i \in 1..Len(yielded) : yielded[i].at # item.at
        /\ item = ItemError(item.at,
                            InsufficientBuffer(total_width(parser.fields),
                                               Some(chars_count(consumed[item.at].text))))

\* the whole input: what was taken and what is still to come
Input == consumed \o lines

\* the reading is over: the process was aborted, or next() returned None at
\* the end of the input
Stopped ==
    \/ item.state = "panic"
    \/ lines = <<>> /\ item.state = "None" /\ item.at = 0

\* the record of the well-formed line k was produced, in the sequence of
\* items a consumer of the iterator receives (up to the first None)
Produced(k) ==
    \E i \in 1..Len(yielded) :
        /\ yielded[i].at = k
        /\ yielded[i].collected
        /\ yielded[i].record = parse(parser.fields, Input[k].text).record

\* C14: when a line is too short for the layout or cannot be read, the
\* record sequence still produces the Record of every well-formed line
\* after it.
C14_BadLineDoesNotStop ==
    Stopped =>
        \A k \in 1..Len(Input) :
            (WellFormed(Input[k]) /\ \E j \in 1..(k - 1) : ~WellFormed(Input[j]))
                => Produced(k)

\* a call of next() that takes a line returns one Record, for that line
OneRecordPerLine ==
    consumed' # consumed =>
        /\ item'.state = "Some"
        /\ item'.at = Len(consumed')
        /\ yielded' = Append(yielded, [at |-> item'.at, record |-> item'.record,
                                       collected |-> TRUE])

\* once next() has returned None it returns None
NoneStays == item.state = "None" => item'.state = "None"

\* C15: StringReader yields exactly one Record per input line, in line
\* order, and after next() has returned no item every later call returns no
\* item.
C15_OnePerLineThenNone == [][OneRecordPerLine /\ NoneStays]_vars

\* s without its padding: the maximal trailing (Left) or leading (Right) run
Stripped(s, al, pad_char) ==
    IF al = Left THEN SubSeq(s, 1, Len(s) - TrailingRun(s, pad_char))
    ELSE SubSeq(s, LeadingRun(s, pad_char) + 1, Len(s))

\* the layout was declared as spacer(0..a) followed by field(name).range(a..b)
\* with alignment al
SpacerThenField(ds, a, b, al) == ds = <<SpacerDecl(a), FieldDecl(a, b, al, ReaderPadding)>>

\* C16: with a layout of a spacer over 0..a and a named field over a..b, a
\* line of at least b scalars gives a Record whose only key is the field's
\* name, its value being the scalars a..b of the line (counted in scalars,
\* not bytes) without the padding on the field's padded side.
C16_SpacerThenFieldRecord ==
    TookLine =>
        \A a \in 0..MaxEnd, b \in 0..MaxEnd, al \in {Left, Right} :
            (/\ a <= b
             /\ SpacerThenField(declarations, a, b, al)
             /\ chars_count(consumed[item.at].text) >= b)
            => /\ item.state = "Some"
               /\ DOMAIN item.record = {ReaderName}
               /\ item.record[ReaderName] =
                     Stripped(SubSeq(consumed[item.at].text, a + 1, b), al, ReaderPadding)

\* C16 witness: spacer over 0..1 and a Left-aligned field over 1..3; the
\* line starts with a three-byte scalar and ends with the padding character
C16_Witness ==
    /\ TookLine /\ SpacerThenField(declarations, 1, 3, Left)
    /\ consumed[item.at].text = <<"U+4F1A", "a", "X">>
    /\ item.state = "Some"
    /\ item.record = [n \in {ReaderName} |-> <<"a">>]

====
